---- MODULE Spec2Model ----
(***************************************************************************)
(* Model of the chiron-platform worker: the RayDeploymentManager            *)
(* (src/worker/ray_deployment_manager.py) driven through the Worker's RPC   *)
(* functions (src/worker/start_worker.py).                                  *)
(*                                                                          *)
(* Strings that the code computes on (artifact ids, deployment names) are   *)
(* sequences of one-character strings, so that split and replace are        *)
(* computed and not assumed.                                                *)
(*                                                                          *)
(* The serving runtime (Ray Serve) and the RPC gateway (Hypha) are not part *)
(* of the repository.  They are modelled by the contract of the             *)
(* repository's interface description: submit(spec, application) creates    *)
(* or replaces the deployment of that name under the application,           *)
(* delete(name) removes it and is a no-op for an absent name,               *)
(* register(..., overwrite) replaces the whole bundle.                      *)
(***************************************************************************)
EXTENDS Integers, Sequences, FiniteSets, TLC

\* ------------------------------------------------------------------ bounds
\* Number of RPC call slots (calls that may be in flight at once in SpecConc).
MaxCalls == 2
\* Longest artifact id drawn in the name-mapping specification.
MaxIdLen == 3

\* ----------------------------------------------------------------- strings
\* Python str.replace(old, new) for one-character old and new.
Replace(s, old, new) ==
  [i \in 1..Len(s) |-> IF s[i] = old THEN new ELSE s[i]]

\* Python str.split(sep): the list of segments, empty segments kept.
RECURSIVE Split(_, _)
Split(s, sep) ==
  IF \A i \in 1..Len(s) : s[i] # sep
  THEN <<s>>
  ELSE LET k == CHOOSE i \in 1..Len(s) :
                  s[i] = sep /\ \A j \in 1..(i - 1) : s[j] # sep
       IN <<SubSeq(s, 1, k - 1)>> \o Split(SubSeq(s, k + 1, Len(s)), sep)

\* RayDeploymentManager._get_deployment_name: split("/")[1] with '-' replaced
\* by '_'; on IndexError (no '/') the whole id with '-' replaced by '_'.
_get_deployment_name(artifact_id) ==
  LET parts == Split(artifact_id, "/")
  IN IF Len(parts) >= 2
     THEN Replace(parts[2], "-", "_")
     ELSE Replace(artifact_id, "-", "_")

\* ------------------------------------------------------------- the universe
\* Artifact ids of the registry: two that differ only in the workspace
\* prefix, and one without a '/' that holds a '-'.
WsA == <<"w", "/", "a">>
VsA == <<"v", "/", "a">>
BC == <<"b", "-", "c">>
ArtifactIds == {WsA, VsA, BC}
\* The order in which the registry lists the members of a collection.
ListingOrder == <<WsA, VsA, BC>>
\* version = None (latest) or a named version.
Versions == {"None", "v1"}
\* Who calls: the Worker's RPC function (catches everything) or the manager's
\* method directly (exceptions reach the caller).
Entries == {"worker", "manager"}

None == "None"
NoExn == [type |-> "none", msg |-> ""]
NoSnapshot == [status |-> "none", deployments |-> {}, others |-> {}]
NoResult == [success |-> FALSE, error |-> "", raised |-> FALSE, service_id |-> ""]
\* A name a manifest may carry in deployment_config["name"].
CustomName == <<"x">>
NoName == <<>>
\* The value of a deployment name not computed yet.
NotComputed == <<"?">>

\* Outcomes of load_deployment_code's steps (an environment input).
LoadOutcomes ==
  {"ok", "get_file_error", "timeout", "http_error", "exec_error", "no_symbol",
   "falsy_model"}
\* What artifact_manager.read returns (an environment input).
Manifests == {"read_error", "no_manifest", "no_config", "config", "config_named"}
\* serve.deployment(**config)(...) / ray.serve.run outcome.
SubmitOutcomes == {"ok", "rejected"}
\* ray.serve.delete outcome.
DeleteOutcomes == {"ok", "error"}
\* GET /api/serve/applications/: the umbrella application's status, or a
\* transport failure.
StatusOutcomes == {"RUNNING", "DEPLOY_FAILED", "http_error"}
\* Whether the status response lists another application besides "Chiron".
OtherApps == {"none", "listed"}
\* The deployment of that other application.
OtherDeployment == <<"z">>
\* server.register_service outcome.
RegisterOutcomes == {"ok", "error"}
\* artifact_manager.list outcome.
ListOutcomes == {"ok", "error"}

\* The exception load_deployment_code raises for each failing outcome
\* (lines 94-106): an exec failure and a missing ChironModel are both wrapped
\* in ValueError("Code execution failed: ...").
LoaderException(lo) ==
  CASE lo = "timeout" -> [type |-> "TimeoutError", msg |-> "Network request timeout"]
    [] lo = "http_error" -> [type |-> "HTTPError", msg |-> "http status error"]
    [] lo = "get_file_error" -> [type |-> "Exception", msg |-> "get_file failed"]
    [] lo = "exec_error" ->
         [type |-> "ValueError", msg |-> "Code execution failed: evaluation error"]
    [] lo = "no_symbol" ->
         [type |-> "ValueError", msg |-> "Code execution failed: ChironModel not found"]
    [] lo = "falsy_model" -> [type |-> "ValueError", msg |-> "Failed to load model code"]
    [] OTHER -> NoExn

ReadErrorExn == [type |-> "Exception", msg |-> "read failed"]
NoConfigExn ==
  [type |-> "ValueError", msg |-> "Invalid manifest or missing deployment_config"]
RejectedExn == [type |-> "RuntimeError", msg |-> "Ray Serve deployment failed"]
TypeErrorExn == [type |-> "TypeError", msg |-> "'NoneType' object is not subscriptable"]
DeleteExn == [type |-> "RayServeException", msg |-> "delete failed"]
StatusExn == [type |-> "HTTPError", msg |-> "dashboard request failed"]
RegisterExn == [type |-> "Exception", msg |-> "register_service failed"]
ListExn == [type |-> "Exception", msg |-> "list failed"]

\* ------------------------------------------------------------------- state
VARIABLES
  collection,    \* registry: artifact ids listed under "ray-deployments"
  units,         \* runtime: deployments under application "Chiron"
  registered,    \* gateway: the bundle registered as "ray-model-services", or None
  service_info,  \* RayDeploymentManager.service_info
  calls,         \* the RPC calls in flight, one record per slot
  idA, idB,      \* name mapping: two artifact ids
  nameA, nameB,  \* name mapping: their computed deployment names ("?" before)
  process,       \* the worker process: "serving" or "exited"
  source,        \* code loader: the content of main.py the registry serves
  leftover,      \* code loader: the globals dict the previous load left behind
  load1, load2,  \* code loader: the results of the previous and the latest load
  datasets,      \* dataset manager: the directories under base_dir
  last_call      \* dataset manager: the latest call and whether it succeeded

workerVars == <<collection, units, registered, service_info, calls>>
nameVars == <<idA, idB, nameA, nameB>>
dataVars == <<datasets, last_call>>
auxVars == <<process, source, leftover, load1, load2, datasets, last_call>>
vars ==
  <<collection, units, registered, service_info, calls, idA, idB, nameA, nameB,
    process, source, leftover, load1, load2, datasets, last_call>>

CallIds == 1..MaxCalls

ServiceId == "ray-model-services"
AppName == "Chiron"

IdleCall ==
  [kind |-> "idle", entry |-> "worker", pc |-> "idle", artifact |-> <<>>,
   version |-> None, skip |-> FALSE, list |-> <<>>, i |-> 0,
   results |-> {}, snapshot |-> NoSnapshot, result |-> NoResult,
   pre |-> {}, trace |-> <<>>, faults |-> {}, config |-> [name |-> NoName]]

\* Deployment names the runtime lists under the umbrella application.
RunningNames(us) == {u.name : u \in us}
\* No service registered under ServiceId yet; service_info = None.
NoRegistration == [live |-> FALSE, functions |-> {}]
NoServiceInfo == [id |-> None, functions |-> {}]
\* Callable names of a registration (none while nothing is registered).
Callables(reg) == {f.name : f \in reg.functions}


\* ------------------------------------------------- the collaborators' calls
\* A variant of the submit that leaves an older deployment of the same name.
ServeRunKeepOld(us, name, artifact_id, version) ==
  us \cup {[name |-> name, artifact |-> artifact_id, version |-> version]}

\* A variant of the submit that replaces everything under the application.
ServeRunReplaceApp(us, name, artifact_id, version) ==
  {[name |-> name, artifact |-> artifact_id, version |-> version]}

\* ray.serve.run(app, name="Chiron") for a deployment spec named `name`: the
\* deployment of that name is created, or replaced when it exists.
ServeRun(us, name, artifact_id, version) ==
  {u \in us : u.name # name}
    \cup {[name |-> name, artifact |-> artifact_id, version |-> version]}

\* A variant of the delete that leaves the deployment running.
ServeDeleteKeeps(us, name) == us

\* A variant of the delete that removes every deployment of the application.
ServeDeleteAll(us, name) == {}

\* ray.serve.delete(deployment_name): removes it; an absent name is a no-op.
ServeDelete(us, name) == {u \in us : u.name # name}

\* A variant of the delete that fails for a name that is not running.
DeleteRaisesIfAbsent(us, name, do) == do = "error" \/ name \notin RunningNames(us)

\* Whether the delete raises: undeploy_artifact does not look at what is
\* running before it deletes, so only a failing runtime call raises.
DeleteRaises(us, name, do) == do = "error"

\* deployment_config as read from the manifest: its own "name", if any.
DeploymentConfig(m) ==
  [name |-> IF m = "config_named" THEN CustomName ELSE NoName]

\* A variant that keeps a name the manifest gives.
ForceNameUnlessGiven(config, deployment_name) ==
  IF config.name = NoName THEN [config EXCEPT !.name = deployment_name] ELSE config

\* deployment_config["name"] = deployment_name (line 136).
ForceName(config, deployment_name) == [config EXCEPT !.name = deployment_name]

\* The status response as update_services reads it (lines 256-262): the
\* deployments under "Chiron" when the application is listed with status
\* RUNNING, nothing otherwise.  The application is listed once it holds a
\* deployment.
StatusSnapshot(us, st, oa) ==
  LET others == IF oa = "listed" THEN {OtherDeployment} ELSE {}
  IN IF us = {}
     THEN [status |-> "ABSENT", deployments |-> {}, others |-> others]
     ELSE [status |-> st, deployments |-> RunningNames(us), others |-> others]

\* A variant that takes the deployments of every listed application.
ServiceFunctionsAllApps(snapshot) ==
  {[name |-> k, handle |-> k] : k \in snapshot.others}
    \cup IF snapshot.status = "RUNNING"
         THEN {[name |-> k, handle |-> k] : k \in snapshot.deployments}
         ELSE {}

\* A variant that does not look at the application's status.
ServiceFunctionsAnyStatus(snapshot) ==
  {[name |-> k, handle |-> k] : k \in snapshot.deployments}

\* service_functions built from a status response (lines 250-262): one
\* callable per deployment key k of the application named "Chiron" when its
\* status is RUNNING, bound to the handle of deployment k; other applications
\* are passed over.
ServiceFunctions(snapshot) ==
  IF snapshot.status = "RUNNING"
  THEN {[name |-> k, handle |-> k] : k \in snapshot.deployments}
  ELSE {}

\* A variant of the registration that adds to the bundle registered before.
RegisterPatch(reg, functions) ==
  [live |-> TRUE, functions |-> reg.functions \cup functions]

\* server.register_service({"id": "ray-model-services", ...}, {"overwrite":
\* True}) (lines 265-272): the bundle replaces what was registered.
RegisterOverwrite(reg, functions) == [live |-> TRUE, functions |-> functions]

\* A variant that stores an info that does not describe the registered bundle.
ServiceInfoOfNothing(functions) == [id |-> ServiceId, functions |-> {}]

\* What register_service returns and update_services stores (line 274).
ServiceInfoOf(functions) == [id |-> ServiceId, functions |-> {f.name : f \in functions}]

\* ------------------------------------------------------- results of a call
\* One step of a call, as its history records it.
Event(op, artifact_id) == [op |-> op, artifact |-> artifact_id]
\* A failing input of the environment, met while handling artifact_id.
Fault(artifact_id, kind) == [artifact |-> artifact_id, kind |-> kind]
\* The step is recorded in the call's history; a failing input of the
\* environment is recorded with it.
Traced(call, op, fault) ==
  [call EXCEPT !.trace = Append(call.trace, Event(op, call.artifact)),
               !.faults = IF fault = "ok" THEN call.faults
                          ELSE call.faults \cup {Fault(call.artifact, fault)}]
Success(si) ==
  [success |-> TRUE, error |-> "", raised |-> FALSE, service_id |-> si.id]
\* A variant in which the exception leaves the function whoever calls.
FailureEscapes(entry, exn) ==
  [success |-> FALSE, error |-> exn.msg, raised |-> TRUE, service_id |-> ""]

\* Worker.deploy / Worker.undeploy catch every exception (lines 36-38, 45-47);
\* a direct caller of the manager sees it raised.
Failure(entry, exn) ==
  [success |-> FALSE, error |-> exn.msg, raised |-> entry = "manager",
   service_id |-> ""]

\* A variant that refreshes whatever the caller asked.
UpdateAlways(skip_update) == TRUE

\* `if not skip_update:` (lines 147, 167): whether the call goes on to
\* update_services after its runtime call.
UpdateWanted(skip_update) == ~skip_update

\* deploy_artifact's return statement (line 153) reads service_info['id']:
\* a TypeError while service_info is None.
DeployReturn(si) == IF si = NoServiceInfo THEN TypeErrorExn ELSE NoExn

\* results[artifact_id] = ... (lines 222, 225): a dict entry is overwritten.
DictSet(results, artifact_id, exn) ==
  {r \in results : r.id # artifact_id}
    \cup {[id |-> artifact_id, success |-> exn = NoExn, error |-> exn.msg]}

\* A variant in which the first failing artifact ends the whole pass.
EndDeployArtifactAbort(call, exn, si) ==
  IF call.kind = "batch" /\ exn # NoExn
  THEN [call EXCEPT !.pc = "done", !.result = Failure(call.entry, exn)]
  ELSE IF call.kind = "batch"
  THEN LET more == call.i < Len(call.list)
       IN [call EXCEPT
             !.results = DictSet(call.results, call.artifact, exn),
             !.i = call.i + 1,
             !.artifact = IF more THEN call.list[call.i + 1] ELSE <<>>,
             !.pc = IF more THEN "load" ELSE "done",
             !.result = IF more THEN NoResult ELSE Success(NoServiceInfo)]
  ELSE [call EXCEPT
          !.pc = "done",
          !.result = IF exn = NoExn THEN Success(si) ELSE Failure(call.entry, exn)]

\* A variant in which a single deploy goes on to the service refresh after a
\* failure of loading, reading or submitting.
EndDeployArtifactGoesOn(call, exn, si) ==
  IF call.kind = "batch"
  THEN LET more == call.i < Len(call.list)
       IN [call EXCEPT
             !.results = DictSet(call.results, call.artifact, exn),
             !.i = call.i + 1,
             !.artifact = IF more THEN call.list[call.i + 1] ELSE <<>>,
             !.pc = IF more THEN "load" ELSE "done",
             !.result = IF more THEN NoResult ELSE Success(NoServiceInfo)]
  ELSE IF exn \notin {NoExn, TypeErrorExn} /\ call.pc \in {"load", "read"}
  THEN [call EXCEPT !.pc = "status"]
  ELSE [call EXCEPT
          !.pc = "done",
          !.result = IF exn = NoExn THEN Success(si) ELSE Failure(call.entry, exn)]

\* The end of one deploy_artifact call with exception exn (NoExn: it
\* returned).  In deploy_all_artifacts the outcome is recorded and the loop
\* goes on; a single deploy call ends.
EndDeployArtifact(call, exn, si) ==
  IF call.kind = "batch"
  THEN LET more == call.i < Len(call.list)
       IN [call EXCEPT
             !.results = DictSet(call.results, call.artifact, exn),
             !.i = call.i + 1,
             !.artifact = IF more THEN call.list[call.i + 1] ELSE <<>>,
             !.pc = IF more THEN "load" ELSE "done",
             !.result = IF more THEN NoResult ELSE Success(NoServiceInfo)]
  ELSE [call EXCEPT
          !.pc = "done",
          !.result = IF exn = NoExn THEN Success(si) ELSE Failure(call.entry, exn)]

\* A failure inside update_services (lines 279-281): deploy_artifact logs it
\* and goes on to its return (lines 150-153); undeploy_artifact lets it out.
RefreshFailed(call, exn, si) ==
  LET traced == Traced(call, "refresh_failed", "ok")
  IN IF call.kind = "undeploy"
     THEN [traced EXCEPT !.pc = "done", !.result = Failure(call.entry, exn)]
     ELSE EndDeployArtifact(traced, DeployReturn(si), si)


\* Worker.undeploy's success value (line 44); undeploy_artifact returns None.
UndeploySuccess == [success |-> TRUE, error |-> "", raised |-> FALSE, service_id |-> ""]

\* ----------------------------------------------------------------- actions
\* The worker after RayDeploymentManager.__init__ (lines 26-30) and connect:
\* nothing deployed by it, nothing registered, service_info = None.
InitWorker ==
  /\ collection = {}
  /\ units = {}
  /\ registered = NoRegistration
  /\ service_info = NoServiceInfo
  /\ calls = [c \in CallIds |-> IdleCall]

\* ------------------------------------------------- the dataset manager
\* FileManager (file_manager.py) behind the Worker's dataset entries. Ids and
\* paths are sequences of characters; the file name "manifest.yaml" is one
\* element of a path, since nothing in the code looks inside it.

ManifestName == "manifest.yaml"

\* Python s.replace('..', ''): the occurrences are removed from left to right
\* and do not overlap.
RECURSIVE RemoveDotDot(_)
RemoveDotDot(s) ==
  IF Len(s) < 2 THEN s
  ELSE IF s[1] = "." /\ s[2] = "."
       THEN RemoveDotDot(SubSeq(s, 3, Len(s)))
       ELSE <<s[1]>> \o RemoveDotDot(Tail(s))

\* Python s.lstrip(ch).
RECURSIVE LStrip(_, _)
LStrip(s, ch) ==
  IF s # <<>> /\ s[1] = ch THEN LStrip(Tail(s), ch) ELSE s

\* FileManager._get_dataset_path: the name of the directory under base_dir.
_get_dataset_path(dataset_id) ==
  Replace(Replace(RemoveDotDot(dataset_id), "/", "_"), "\\", "_")

\* safe_path of upload_file and delete_file (lines 244 and 292).
SafePath(file_path) == LStrip(RemoveDotDot(file_path), "/")

\* dataset_path / safe_path: pathlib drops empty and "." components; the
\* result is the sequence of the components below the dataset directory.
FullPath(safe_path) ==
  SelectSeq(Split(safe_path, "/"), LAMBDA seg : seg # <<>> /\ seg # <<".">>)

\* _get_manifest_path, below the dataset directory.
ManifestPath == <<(<<ManifestName>>)>>

\* The dataset ids the callers use; two of them name the same directory.
DatasetIds == { <<"a", "/", "b">>, <<"a", "_", "b">>, <<".", ".", "c">> }
DatasetDirs == { _get_dataset_path(id) : id \in DatasetIds }

\* The relative file paths the callers use.
FilePaths ==
  { <<"f">>,
    <<"d", "/", "f">>,
    <<ManifestName>>,
    <<"/", ManifestName>>,
    <<".", ".", "/", ManifestName>>,
    <<".", "/", ManifestName>>,
    <<ManifestName, "/">> }

\* manifest_data of create_dataset, as the set of its keys.
ManifestDatas == { {"name", "description"}, {"name"} }

\* DatasetManifest(**manifest_data): name and description are required
\* (dataset_schema.py); the fields create_dataset adds are optional ones.
Validates(manifest_data) == {"name", "description"} \subseteq manifest_data

\* What a file holds: YAML of a mapping, as yaml.dump of a manifest writes it,
\* or anything else.
Contents == {"mapping", "other"}

\* A directory of base_dir: whether it exists, its files with what they hold,
\* and its sub-directories.
NoDataset == [exists |-> FALSE, files |-> {}, dirs |-> {}]
IsFile(ds, path) == \E f \in ds.files : f.path = path
IsDir(ds, path) == path = <<>> \/ path \in ds.dirs
Exists(ds, path) == IsFile(ds, path) \/ IsDir(ds, path)
Prefixes(path) == { SubSeq(path, 1, k) : k \in 1..(Len(path) - 1) }
WithFile(ds, path, content) ==
  [ds EXCEPT !.files = { f \in @ : f.path # path }
                         \cup {[path |-> path, content |-> content]},
             !.dirs = @ \cup Prefixes(path)]
WithoutFile(ds, path) == [ds EXCEPT !.files = { f \in @ : f.path # path }]

\* No call of the dataset manager made yet.
NoCall == [op |-> "none", dataset_id |-> <<>>, file_path |-> <<>>, ok |-> TRUE]

\* FileManager.create_dataset: "already exists" (line 97), then makedirs
\* (line 100), then validation (line 110), then the manifest (lines 113-114).
create_dataset(fs, dataset_id, manifest_data) ==
  LET dir == _get_dataset_path(dataset_id)
      made == [fs EXCEPT ![dir] = [NoDataset EXCEPT !.exists = TRUE]]
  IN IF fs[dir].exists THEN [fs |-> fs, ok |-> FALSE]
     ELSE IF ~Validates(manifest_data) THEN [fs |-> made, ok |-> FALSE]
     ELSE [fs |-> [made EXCEPT ![dir] = WithFile(@, ManifestPath, "mapping")],
           ok |-> TRUE]

\* FileManager.get_dataset: "not found" without a manifest (line 131); open
\* fails on a directory; yaml.safe_load fails or gives no mapping for other
\* content, and then line 138 raises.
get_dataset(fs, dataset_id) ==
  LET ds == fs[_get_dataset_path(dataset_id)] IN
  [fs |-> fs,
   ok |-> \E f \in ds.files : f.path = ManifestPath /\ f.content = "mapping"]

\* FileManager.delete_dataset: "not found" (line 188), else rmtree.
delete_dataset(fs, dataset_id) ==
  LET dir == _get_dataset_path(dataset_id) IN
  IF ~fs[dir].exists THEN [fs |-> fs, ok |-> FALSE]
  ELSE [fs |-> [fs EXCEPT ![dir] = NoDataset], ok |-> TRUE]

\* FileManager.upload_file: "not found" (line 241); makedirs of the parent
\* fails when a component of it is a file (line 248); open fails on a
\* directory (line 251); else the file is written. The timestamp update
\* (lines 255-265) rewrites a manifest that holds a mapping as a mapping and
\* swallows every failure.
upload_file(fs, dataset_id, file_path, file_content) ==
  LET dir == _get_dataset_path(dataset_id)
      ds == fs[dir]
      full_path == FullPath(SafePath(file_path))
  IN IF ~ds.exists THEN [fs |-> fs, ok |-> FALSE]
     ELSE IF \E pre \in Prefixes(full_path) : IsFile(ds, pre)
          THEN [fs |-> fs, ok |-> FALSE]
     ELSE IF IsDir(ds, full_path) THEN [fs |-> fs, ok |-> FALSE]
     ELSE [fs |-> [fs EXCEPT ![dir] = WithFile(ds, full_path, file_content)],
           ok |-> TRUE]

\* FileManager.delete_file: "not found" for the dataset (line 289) and for
\* the file (line 296); the manifest guard compares safe_path with
\* "manifest.yaml" (line 299); os.remove fails on a directory (line 303).
delete_file(fs, dataset_id, file_path) ==
  LET dir == _get_dataset_path(dataset_id)
      ds == fs[dir]
      safe_path == SafePath(file_path)
      full_path == FullPath(safe_path)
  IN IF ~ds.exists THEN [fs |-> fs, ok |-> FALSE]
     ELSE IF ~Exists(ds, full_path) THEN [fs |-> fs, ok |-> FALSE]
     ELSE IF safe_path = <<ManifestName>> THEN [fs |-> fs, ok |-> FALSE]
     ELSE IF IsDir(ds, full_path) THEN [fs |-> fs, ok |-> FALSE]
     ELSE [fs |-> [fs EXCEPT ![dir] = WithoutFile(ds, full_path)], ok |-> TRUE]

\* The result of a load not made yet.
NoLoad == [cause |-> "none", exn |-> NoExn, unit |-> "none", content |-> "none"]

\* The process has started and serves (start_worker.py main); the registry
\* serves a first version of the source; no load has been made.
InitAux ==
  /\ process = "serving"
  /\ source = "model_1"
  /\ leftover = {}
  /\ load1 = NoLoad
  /\ load2 = NoLoad
  /\ datasets = [dir \in DatasetDirs |-> NoDataset]
  /\ last_call = NoCall

Init ==
  /\ InitWorker
  /\ InitAux
  /\ idA = <<>>
  /\ idB = <<>>
  /\ nameA = NotComputed
  /\ nameB = NotComputed

\* An operator adds an artifact to the "ray-deployments" collection.
AddArtifact(a) ==
  /\ a \notin collection
  /\ collection' = collection \cup {a}
  /\ UNCHANGED <<units, registered, service_info, calls, nameVars, auxVars>>

\* An operator removes an artifact from the collection.
RemoveArtifact(a) ==
  /\ a \in collection
  /\ collection' = collection \ {a}
  /\ UNCHANGED <<units, registered, service_info, calls, nameVars, auxVars>>

\* Worker.deploy(artifact_id, version) (entry "worker", never skipping the
\* refresh) or RayDeploymentManager.deploy_artifact(artifact_id, version,
\* skip_update) called directly: the call is entered.
StartDeploy(c, a, v, e, s) ==
  /\ calls[c].pc = "idle"
  /\ e = "worker" => ~s
  /\ calls' = [calls EXCEPT ![c] =
       [IdleCall EXCEPT !.kind = "deploy", !.entry = e, !.pc = "load",
                        !.artifact = a, !.version = v, !.skip = s,
                        !.pre = units]]
  /\ UNCHANGED <<collection, units, registered, service_info, nameVars, auxVars>>

\* load_deployment_code (lines 68-106) and the check of its result (123-124).
LoadCode(c, lo) ==
  LET call == calls[c]
      traced == Traced(call, "load", lo)
  IN /\ call.pc = "load"
     /\ calls' = [calls EXCEPT ![c] =
          IF lo = "ok"
          THEN [traced EXCEPT !.pc = "read"]
          ELSE EndDeployArtifact(traced, LoaderException(lo), service_info)]
     /\ UNCHANGED <<collection, units, registered, service_info, nameVars, auxVars>>

\* deploy_artifact from the manifest read to the submit (lines 126-147): no
\* await lies between the read's return and ray.serve.run, which blocks.
ReadAndSubmit(c, m, so) ==
  LET call == calls[c]
      a == call.artifact
      read == Traced(call, "read",
                     IF m = "read_error" THEN "read_error"
                     ELSE IF m \in {"no_manifest", "no_config"} THEN "no_config"
                     ELSE "ok")
      deployment_name == _get_deployment_name(a)
      deployment_config == ForceName(DeploymentConfig(m), deployment_name)
      submitted == Traced(read, "submit", so)
  IN /\ call.pc = "read"
     /\ IF m = "read_error"
        THEN /\ calls' = [calls EXCEPT ![c] =
                  EndDeployArtifact(read, ReadErrorExn, service_info)]
             /\ UNCHANGED units
        ELSE IF m \in {"no_manifest", "no_config"}
        THEN /\ calls' = [calls EXCEPT ![c] =
                  EndDeployArtifact(read, NoConfigExn, service_info)]
             /\ UNCHANGED units
        ELSE IF so = "rejected"
        THEN /\ calls' = [calls EXCEPT ![c] =
                  EndDeployArtifact(submitted, RejectedExn, service_info)]
             /\ UNCHANGED units
        ELSE /\ units' = ServeRun(units, deployment_config.name, a, call.version)
             /\ calls' = [calls EXCEPT ![c] =
                  IF ~UpdateWanted(call.skip)
                  THEN EndDeployArtifact([submitted EXCEPT !.config = DeploymentConfig(m)],
                                         DeployReturn(service_info), service_info)
                  ELSE [submitted EXCEPT !.pc = "status",
                                         !.config = DeploymentConfig(m)]]
     /\ UNCHANGED <<collection, registered, service_info, nameVars, auxVars>>

\* Worker.undeploy(artifact_id) or undeploy_artifact(artifact_id, skip_update)
\* up to its first await (lines 165-168): the delete is synchronous.
StartUndeploy(c, a, e, s, do) ==
  LET deployment_name == _get_deployment_name(a)
      raises == DeleteRaises(units, deployment_name, do)
      call == Traced([IdleCall EXCEPT !.kind = "undeploy", !.entry = e,
                                      !.artifact = a, !.skip = s, !.pre = units],
                     "delete", IF do = "error" THEN "delete_error" ELSE "ok")
  IN /\ calls[c].pc = "idle"
     /\ e = "worker" => ~s
     /\ IF raises
        THEN /\ calls' = [calls EXCEPT ![c] =
                  [call EXCEPT !.pc = "done", !.result = Failure(e, DeleteExn)]]
             /\ UNCHANGED units
        ELSE /\ units' = ServeDelete(units, deployment_name)
             /\ calls' = [calls EXCEPT ![c] =
                  IF ~UpdateWanted(s)
                  THEN [call EXCEPT !.pc = "done", !.result = UndeploySuccess]
                  ELSE [call EXCEPT !.pc = "status"]]
     /\ UNCHANGED <<collection, registered, service_info, nameVars, auxVars>>

\* update_services, first half (lines 239-247): the status request.
FetchStatus(c, st, oa) ==
  LET call == calls[c]
      traced == Traced(call, "status", IF st = "http_error" THEN "status_error" ELSE "ok")
  IN /\ call.pc = "status"
     /\ calls' = [calls EXCEPT ![c] =
          IF st = "http_error"
          THEN RefreshFailed(traced, StatusExn, service_info)
          ELSE [traced EXCEPT !.pc = "register",
                              !.snapshot = StatusSnapshot(units, st, oa)]]
     /\ UNCHANGED <<collection, units, registered, service_info, nameVars, auxVars>>

\* update_services, second half (lines 249-277): the bundle is built from the
\* status response read before and registered with overwrite; the reply is
\* stored and the caller goes on to its return without another await.
RegisterService(c, ro) ==
  LET call == calls[c]
      traced == Traced(call, "register", IF ro = "error" THEN "register_error" ELSE "ok")
      functions == ServiceFunctions(call.snapshot)
      info == ServiceInfoOf(functions)
  IN /\ call.pc = "register"
     /\ IF ro = "error"
        THEN /\ calls' = [calls EXCEPT ![c] =
                  RefreshFailed(traced, RegisterExn, service_info)]
             /\ UNCHANGED <<registered, service_info>>
        ELSE /\ registered' = RegisterOverwrite(registered, functions)
             /\ service_info' = info
             /\ calls' = [calls EXCEPT ![c] =
                  IF call.kind = "undeploy"
                  THEN [traced EXCEPT !.pc = "done", !.result = UndeploySuccess]
                  ELSE EndDeployArtifact(traced, DeployReturn(info), info)]
     /\ UNCHANGED <<collection, units, nameVars, auxVars>>

\* deploy_all_artifacts up to its first deploy (lines 210-219): the listing.
StartBatch(c, lo) ==
  LET list == SelectSeq(ListingOrder, LAMBDA a : a \in collection)
      call == [IdleCall EXCEPT !.kind = "batch", !.entry = "manager", !.skip = TRUE,
                               !.pre = units, !.list = list,
                               !.faults = IF lo = "error" THEN {Fault(<<>>, "list_error")}
                                           ELSE {}]
  IN /\ calls[c].pc = "idle"
     /\ calls' = [calls EXCEPT ![c] =
          IF lo = "error"
          THEN [call EXCEPT !.pc = "done", !.list = <<>>,
                            !.result = Failure("manager", ListExn)]
          ELSE IF list = <<>>
          THEN [call EXCEPT !.pc = "done", !.result = Success(NoServiceInfo)]
          ELSE [call EXCEPT !.pc = "load", !.i = 1, !.artifact = list[1]]]
     /\ UNCHANGED <<collection, units, registered, service_info, nameVars, auxVars>>

\* The caller takes the result: the slot is free again.
Return(c) ==
  /\ calls[c].pc = "done"
  /\ calls' = [calls EXCEPT ![c] = IdleCall]
  /\ UNCHANGED <<collection, units, registered, service_info, nameVars, auxVars>>

AllIdle == \A c \in CallIds : calls[c].pc = "idle"
\* Slots are interchangeable: a new call takes the lowest free one.
FreeSlot(c) ==
  /\ calls[c].pc = "idle"
  /\ \A d \in CallIds : d < c => calls[d].pc # "idle"

\* A step of a call in flight.
Continue(c) ==
  \/ \E lo \in LoadOutcomes : LoadCode(c, lo)
  \/ \E m \in Manifests, so \in SubmitOutcomes : ReadAndSubmit(c, m, so)
  \/ \E st \in StatusOutcomes, oa \in OtherApps : FetchStatus(c, st, oa)
  \/ \E ro \in RegisterOutcomes : RegisterService(c, ro)

\* A call is made.
Start(c) ==
  \/ \E a \in ArtifactIds, v \in Versions, e \in Entries, s \in BOOLEAN :
       StartDeploy(c, a, v, e, s)
  \/ \E a \in ArtifactIds, e \in Entries, s \in BOOLEAN, do \in DeleteOutcomes :
       StartUndeploy(c, a, e, s, do)
  \/ \E lo \in ListOutcomes : StartBatch(c, lo)

Environment ==
  \/ \E a \in ArtifactIds : AddArtifact(a)
  \/ \E a \in ArtifactIds : RemoveArtifact(a)

\* The worker serving one call at a time: a call is made only when no other
\* is in flight.  The collection is read once, when a pass starts, so its
\* changes are taken between calls.
Next ==
  \/ AllIdle /\ Environment
  \/ \E c \in CallIds : AllIdle /\ FreeSlot(c) /\ Start(c)
  \/ \E c \in CallIds : Continue(c)
  \/ \E c \in CallIds : Return(c)

Spec == Init /\ [][Next]_vars

\* A step of a call in flight when no collaborator fails and the umbrella
\* application is RUNNING.
ContinueOk(c) ==
  \/ LoadCode(c, "ok")
  \/ ReadAndSubmit(c, "config", "ok")
  \/ FetchStatus(c, "RUNNING", "none")
  \/ RegisterService(c, "ok")

\* A call made through the Worker's RPC functions.
StartOk(c) ==
  \/ \E a \in ArtifactIds : StartDeploy(c, a, None, "worker", FALSE)
  \/ \E a \in ArtifactIds : StartUndeploy(c, a, "worker", FALSE, "ok")

\* The Worker's RPC functions called while other calls are in flight: the
\* calls interleave at their await points.  No collaborator fails.
NextConc ==
  \/ \E c \in CallIds : FreeSlot(c) /\ StartOk(c)
  \/ \E c \in CallIds : ContinueOk(c)
  \/ \E c \in CallIds : Return(c)

SpecConc == Init /\ [][NextConc]_vars

\* The worker left to itself with a working environment: operators change
\* the collection and may call the RPC functions, one call at a time; no
\* collaborator fails.  A call in flight is always continued (asyncio runs a
\* coroutine whose await has returned) and its result is taken.
NextLive ==
  \/ AllIdle /\ Environment
  \/ \E c \in CallIds : AllIdle /\ FreeSlot(c) /\ (StartOk(c) \/ StartBatch(c, "ok"))
  \/ \E c \in CallIds : ContinueOk(c)
  \/ \E c \in CallIds : Return(c)

SpecLive ==
  /\ Init
  /\ [][NextLive]_vars
  /\ WF_vars(\E c \in CallIds : ContinueOk(c))
  /\ WF_vars(\E c \in CallIds : Return(c))

\* A step of a call in flight when the only failure is a code download that
\* exceeds its timeout (httpx.TimeoutException, lines 98-100).
ContinueOrTimeout(c) ==
  \/ ContinueOk(c)
  \/ LoadCode(c, "timeout")

\* The worker left to itself as in SpecLive, with code downloads that may
\* time out.
NextTimeout ==
  \/ AllIdle /\ Environment
  \/ \E c \in CallIds : AllIdle /\ FreeSlot(c) /\ (StartOk(c) \/ StartBatch(c, "ok"))
  \/ \E c \in CallIds : ContinueOrTimeout(c)
  \/ \E c \in CallIds : Return(c)

SpecTimeout ==
  /\ Init
  /\ [][NextTimeout]_vars
  /\ WF_vars(\E c \in CallIds : ContinueOrTimeout(c))
  /\ WF_vars(\E c \in CallIds : Return(c))

\* The process is interrupted (start_worker.py lines 213-216): main logs
\* "shutting down" and returns, asyncio.run ends the process.  No undeploy
\* is made; the runtime keeps what it runs.
Shutdown ==
  /\ process = "serving"
  /\ process' = "exited"
  /\ UNCHANGED <<workerVars, nameVars, source, leftover, load1, load2, dataVars>>

\* The worker serving fault-free RPC calls one at a time until it is
\* interrupted, at any point; an exited process takes no step.
NextShutdown ==
  \/ \E c \in CallIds : process = "serving" /\ AllIdle /\ FreeSlot(c) /\ StartOk(c)
  \/ \E c \in CallIds : process = "serving" /\ ContinueOk(c)
  \/ \E c \in CallIds : process = "serving" /\ Return(c)
  \/ Shutdown

SpecShutdown == Init /\ [][NextShutdown]_vars

\* ------------------------------------------------- the code loader on its own
\* Contents of main.py: two that define ChironModel (differently), one that
\* defines only a helper, one that raises while it is executed, one that
\* binds ChironModel to None.
Sources == {"model_1", "model_2", "no_model", "raises", "none_model"}
\* Outcome of get_file and the download (lines 70-80).
Downloads == {"ok", "get_file_error", "timeout", "http_error"}

\* A globals dict: a set of bindings, one per name.
Bind(globals, name, value) ==
  {b \in globals : b.name # name} \cup {[name |-> name, value |-> value]}
Bound(globals, name) == \E b \in globals : b.name = name
\* dict.get(name): None for a missing key.
Get(globals, name) ==
  IF Bound(globals, name)
  THEN (CHOOSE b \in globals : b.name = name).value
  ELSE "None"

\* exec(code_content, globals) (line 89): the bindings the content makes.
Exec(globals, content) ==
  CASE content = "model_1" -> Bind(globals, "ChironModel", "m1")
    [] content = "model_2" -> Bind(globals, "ChironModel", "m2")
    [] content = "no_model" -> Bind(globals, "helper", "h")
    [] content = "none_model" -> Bind(globals, "ChironModel", "None")
    [] OTHER -> globals

\* A variant that evaluates in the dict the previous load left behind.
SafeGlobalsKept(previous) == previous

\* safe_globals = {} (line 86): a new empty dict in every call.
SafeGlobals(previous) == {}

\* load_deployment_code (lines 68-106) for a download outcome and the
\* content the registry serves: what it raises or returns, and the globals
\* dict it leaves.
load_deployment_code(previous, download, content) ==
  LET safe_globals == SafeGlobals(previous)
      after == Exec(safe_globals, content)
      cause == IF download # "ok" THEN download
               ELSE IF content = "raises" THEN "exec_error"
               ELSE IF ~Bound(after, "ChironModel") THEN "no_symbol"
               ELSE "ok"
  IN [cause |-> cause,
      exn |-> LoaderException(cause),
      unit |-> IF cause = "ok" THEN Get(after, "ChironModel") ELSE "none",
      content |-> IF download = "ok" THEN content ELSE "none",
      globals |-> IF download = "ok" THEN after ELSE previous]

\* What the caller of a load sees and what was fetched.
LoadResult(r) ==
  [cause |-> r.cause, exn |-> r.exn, unit |-> r.unit, content |-> r.content]

\* One call of load_deployment_code.
Load(download) ==
  LET r == load_deployment_code(leftover, download, source)
  IN /\ load1' = load2
     /\ load2' = LoadResult(r)
     /\ leftover' = r.globals
     /\ UNCHANGED <<workerVars, nameVars, process, source, dataVars>>

\* The artifact's main.py is replaced in the registry.
EditSource(content) ==
  /\ content # source
  /\ source' = content
  /\ UNCHANGED <<workerVars, nameVars, process, leftover, load1, load2, dataVars>>

NextLoader ==
  \/ \E download \in Downloads : Load(download)
  \/ \E content \in Sources : EditSource(content)

SpecLoader == Init /\ [][NextLoader]_vars

\* ----------------------------------------------- the name mapping on its own
IdChars == {"a", "-", "_", "/"}
\* The artifact ids over IdChars of length at most MaxIdLen: '/'-separated
\* segments, none of them empty.
Ids ==
  {s \in UNION {[1..n -> IdChars] : n \in 1..MaxIdLen} :
     /\ s[1] # "/" /\ s[Len(s)] # "/"
     /\ \A i \in 1..(Len(s) - 1) : ~(s[i] = "/" /\ s[i + 1] = "/")}

InitName ==
  /\ InitWorker
  /\ InitAux
  /\ idA \in Ids
  /\ idB \in Ids
  /\ nameA = NotComputed
  /\ nameB = NotComputed

\* deployment_name = self._get_deployment_name(artifact_id) for the first id.
ComputeNameA ==
  /\ nameA = NotComputed
  /\ nameA' = _get_deployment_name(idA)
  /\ UNCHANGED <<workerVars, idA, idB, nameB, auxVars>>

\* The same for the second id.
ComputeNameB ==
  /\ nameB = NotComputed
  /\ nameB' = _get_deployment_name(idB)
  /\ UNCHANGED <<workerVars, idA, idB, nameA, auxVars>>

NextName == ComputeNameA \/ ComputeNameB

SpecName == InitName /\ [][NextName]_vars

\* Longest artifact id drawn for the name mapping of ids with three segments.
MaxSegIdLen == 5
\* The artifact ids of length at most MaxSegIdLen with non-empty segments.
LongIds ==
  {s \in UNION {[1..n -> IdChars] : n \in 1..MaxSegIdLen} :
     /\ s[1] # "/" /\ s[Len(s)] # "/"
     /\ \A i \in 1..(Len(s) - 1) : ~(s[i] = "/" /\ s[i + 1] = "/")}

InitSegments ==
  /\ InitWorker
  /\ InitAux
  /\ idA \in LongIds
  /\ idB = <<>>
  /\ nameA = NotComputed
  /\ nameB = NotComputed

\* The name mapping applied to one id with up to three segments.
SpecSegments == InitSegments /\ [][ComputeNameA]_vars

\* ------------------------------------------ the dataset manager's entries
\* Worker.create_dataset .. Worker.delete_file (start_worker.py): each runs
\* the FileManager method without awaiting, so as one step, and turns an
\* exception into {success: False}.
DataCall(op, dataset_id, file_path, r) ==
  /\ datasets' = r.fs
  /\ last_call' = [op |-> op, dataset_id |-> dataset_id,
                   file_path |-> file_path, ok |-> r.ok]
  /\ UNCHANGED <<workerVars, nameVars, process, source, leftover, load1, load2>>

CreateDataset ==
  \E id \in DatasetIds, data \in ManifestDatas :
    DataCall("create_dataset", id, <<>>, create_dataset(datasets, id, data))

GetDataset ==
  \E id \in DatasetIds :
    DataCall("get_dataset", id, <<>>, get_dataset(datasets, id))

DeleteDataset ==
  \E id \in DatasetIds :
    DataCall("delete_dataset", id, <<>>, delete_dataset(datasets, id))

UploadFile ==
  \E id \in DatasetIds, path \in FilePaths, content \in Contents :
    DataCall("upload_file", id, path, upload_file(datasets, id, path, content))

DeleteFile ==
  \E id \in DatasetIds, path \in FilePaths :
    DataCall("delete_file", id, path, delete_file(datasets, id, path))

NextData ==
  \/ CreateDataset
  \/ GetDataset
  \/ DeleteDataset
  \/ UploadFile
  \/ DeleteFile

SpecData == Init /\ [][NextData]_vars

\* ============================================================== the claims
Done(c, kind) == calls[c].kind = kind /\ calls[c].pc = "done"
ListSet(call) == {call.list[k] : k \in 1..Len(call.list)}
\* How many times step op was taken for artifact a in a call's history.
Count(call, op, a) ==
  Cardinality({k \in 1..Len(call.trace) : call.trace[k] = Event(op, a)})
CountOp(call, op) ==
  Cardinality({k \in 1..Len(call.trace) : call.trace[k].op = op})
\* A result entry of an artifact whose code, manifest and submission were
\* fine: recorded as success, or as the TypeError of the return statement.
WellFormed(r) == r.success \/ r.error = TypeErrorExn.msg
DistinctNames(call) ==
  \A a, b \in ListSet(call) :
    a # b => _get_deployment_name(a) # _get_deployment_name(b)
FaultKinds(call) == {f.kind : f \in call.faults}
\* The listed artifacts for which some input of the environment failed.
Failing(call) == {f.artifact : f \in call.faults}
\* The listing of the pass succeeded.
Listed(call) == "list_error" \notin FaultKinds(call)

\* C1: once every concurrently running deploy/undeploy call has completed,
\* the callable names of the live registration are the deployment names the
\* runtime reports under the umbrella application.
C1_RegistrationMatchesRuntimeWhenQuiet ==
  (\A c \in CallIds : calls[c].pc \in {"idle", "done"})
    => Callables(registered) = RunningNames(units)

\* C2: a batch pass over N well-formed artifacts with pairwise different
\* deployment names, started with nothing running, leaves exactly N
\* deployments running, one per listed artifact.
C2_BatchDeploysAll ==
  \A c \in CallIds :
    LET call == calls[c] IN
    ( /\ Done(c, "batch") /\ Listed(call)
      /\ call.pre = {}
      /\ DistinctNames(call)
      /\ call.faults = {} )
    => /\ Cardinality(units) = Len(call.list)
       /\ \A a \in ListSet(call) :
            \E u \in units : u.artifact = a /\ u.name = _get_deployment_name(a)

C2_Witness ==
  \E c \in CallIds :
    LET call == calls[c] IN
    /\ Done(c, "batch") /\ call.pre = {} /\ call.faults = {}
    /\ Len(call.list) = 2 /\ DistinctNames(call)
    /\ Cardinality(units) = 2

\* C3: a batch pass that applied at least one change refreshed the service
\* registration exactly once, after the last change.
C3_BatchRefreshesOnce ==
  \A c \in CallIds :
    LET call == calls[c] IN
    (Done(c, "batch") /\ ListSet(call) \ Failing(call) # {})
    => /\ CountOp(call, "register") = 1
       /\ call.trace[Len(call.trace)].op = "register"

\* C4: a batch pass does not abort on a failing artifact: every listed
\* artifact is attempted exactly once and gets a result entry, and when
\* one artifact A fails and the others are well-formed, A is recorded as
\* failed and every other artifact is submitted and running.
C4_BatchIsolatesFailure ==
  \A c \in CallIds :
    LET call == calls[c] IN
    (Done(c, "batch") /\ Listed(call))
    => /\ ~call.result.raised
       /\ {r.id : r \in call.results} = ListSet(call)
       /\ \A a \in ListSet(call) : Count(call, "load", a) = 1
       /\ \A A \in Failing(call) :
            /\ \A r \in call.results : r.id = A => ~r.success
            /\ Failing(call) = {A} =>
                 \A B \in ListSet(call) \ {A} :
                   /\ Count(call, "submit", B) = 1
                   /\ \E u \in units :
                        /\ u.name = _get_deployment_name(B)
                        /\ u.artifact \in ListSet(call) \ {A}

C4_Witness ==
  \E c \in CallIds :
    LET call == calls[c] IN
    /\ Done(c, "batch") /\ call.list = <<WsA, VsA, BC>>
    /\ call.faults = {Fault(WsA, "no_config")}
    /\ \E r \in call.results :
         r.id = WsA /\ ~r.success /\ r.error = NoConfigExn.msg
    /\ {u.artifact : u \in units} = {VsA, BC}
    /\ \A r \in call.results : r.id # WsA => WellFormed(r)

\* C5: a batch pass undeploys every deployment that was running at its start
\* and has no artifact in the listed collection.
C5_BatchUndeploysUndesired ==
  \A c \in CallIds :
    LET call == calls[c] IN
    (Done(c, "batch") /\ Listed(call))
    => \A u \in call.pre :
         u.name \notin {_get_deployment_name(a) : a \in ListSet(call)}
           => u.name \notin RunningNames(units)

\* Desired and actual agree and the registration exposes exactly the
\* running names.
InSync ==
  /\ RunningNames(units) = {_get_deployment_name(a) : a \in collection}
  /\ Callables(registered) = RunningNames(units)

\* C6: if from some point on no operator call is made and the collection no
\* longer changes, the system eventually reaches and stays in a state where
\* the running names are those of the collection and the registration
\* exposes exactly them.
C6_ReconciliationConverges ==
  (<>[]AllIdle /\ <>[][collection' = collection]_vars) => <>[]InSync

\* C7: an undeploy of an artifact whose deployment is not running leaves the
\* runtime as it was and, when no collaborator call fails, returns success
\* with the registration rebuilt from that unchanged runtime state (so a
\* second undeploy in a row changes nothing the first one left).
C7_UndeployNotRunningSucceeds ==
  \A c \in CallIds :
    LET call == calls[c] IN
    ( /\ Done(c, "undeploy")
      /\ _get_deployment_name(call.artifact) \notin RunningNames(call.pre) )
    => /\ units = call.pre
       /\ call.faults = {} =>
            /\ call.result.success /\ ~call.result.raised
            /\ ~call.skip =>
                 /\ registered.live
                 /\ call.snapshot.deployments = RunningNames(call.pre)
                 /\ registered.functions = ServiceFunctions(call.snapshot)

C7_Witness ==
  \E c \in CallIds :
    LET call == calls[c] IN
    /\ Done(c, "undeploy") /\ call.entry = "worker"
    /\ call.pre # {}
    /\ _get_deployment_name(call.artifact) \notin RunningNames(call.pre)
    /\ call.result.success
    /\ call.snapshot.status = "RUNNING"
    /\ Callables(registered) = RunningNames(call.pre)

\* C8: the runtime never holds two deployments of one artifact identity,
\* every deployment carries the name computed from its artifact id, and a
\* deploy of an already deployed artifact that the runtime accepts replaces
\* the old deployment (and is reported successful when the refresh ran).
C8_OneDeploymentPerArtifact ==
  /\ \A a \in ArtifactIds : Cardinality({u \in units : u.artifact = a}) <= 1
  /\ \A u \in units : u.name = _get_deployment_name(u.artifact)
  /\ \A c \in CallIds :
       LET call == calls[c] IN
       ( /\ Done(c, "deploy") /\ call.faults = {}
         /\ \E u \in call.pre : u.artifact = call.artifact )
       => /\ [name |-> _get_deployment_name(call.artifact),
              artifact |-> call.artifact, version |-> call.version] \in units
          /\ ~call.skip => call.result.success

C8_Witness ==
  \E c \in CallIds :
    LET call == calls[c] IN
    /\ Done(c, "deploy") /\ call.entry = "worker" /\ call.result.success
    /\ \E u \in call.pre : u.artifact = call.artifact /\ u.version # call.version
    /\ \E u \in units : u.artifact = call.artifact /\ u.version = call.version

\* C9: two different artifact ids never get the same deployment name.
C9_NamesCollisionFree ==
  (nameA # NotComputed /\ nameB # NotComputed /\ idA # idB) => nameA # nameB

\* C10: a deploy whose submission the runtime accepted and whose service
\* refresh then failed still reports success, and the deployment is running.
C10_DeploySucceedsWhenRefreshFails ==
  \A c \in CallIds :
    LET call == calls[c] IN
    ( /\ Done(c, "deploy") /\ ~call.skip
      /\ call.faults # {}
      /\ FaultKinds(call) \subseteq {"status_error", "register_error"} )
    => /\ call.result.success
       /\ \E u \in units : u.artifact = call.artifact

\* The failing inputs that end a call with an exception: code loading,
\* manifest reading, the runtime's submit and delete.
FatalKinds ==
  (LoadOutcomes \ {"ok"}) \cup {"read_error", "no_config", "rejected", "delete_error"}

\* C11: Worker.deploy and Worker.undeploy never raise.  A failure of code
\* loading, manifest reading, submit or delete, and a refresh failure in
\* undeploy, is returned as {success: false, error} with the error's text;
\* a refresh failure in deploy is returned as a value too (success, or the
\* failure of the return statement).
C11_WorkerNeverRaises ==
  \A c \in CallIds :
    LET call == calls[c] IN
    (call.pc = "done" /\ call.entry = "worker")
    => /\ ~call.result.raised
       /\ ~call.result.success => call.result.error # ""
       /\ FaultKinds(call) \cap FatalKinds # {} => ~call.result.success
       /\ (call.kind = "undeploy" /\ call.faults # {}) => ~call.result.success

C11_Witness ==
  \E c \in CallIds :
    LET call == calls[c] IN
    /\ Done(c, "undeploy") /\ call.entry = "worker"
    /\ FaultKinds(call) = {"register_error"}
    /\ ~call.result.raised /\ ~call.result.success
    /\ call.result.error = RegisterExn.msg

\* A deploy call of artifact a has ended with a download timeout.
TimedOut(a) ==
  \E c \in CallIds :
    Done(c, "deploy") /\ calls[c].artifact = a /\ Fault(a, "timeout") \in calls[c].faults
\* The code of artifact a is being loaded by some call.
Attempted(a) ==
  \E c \in CallIds : calls[c].pc = "load" /\ calls[c].artifact = a

\* C12: a deploy whose code download timed out returns a failure that names
\* the network timeout, submits nothing and registers nothing (runtime and
\* registration are as before the call); and while the artifact stays in the
\* collection, it is attempted again later without an operator asking for it.
C12_TimeoutFailsCleanAndIsRetried ==
  /\ [](\A c \in CallIds :
          LET call == calls[c] IN
          (Done(c, "deploy") /\ "timeout" \in FaultKinds(call))
          => /\ ~call.result.success /\ ~call.result.raised
             /\ call.result.error = LoaderException("timeout").msg
             /\ CountOp(call, "submit") = 0 /\ CountOp(call, "register") = 0
             /\ units = call.pre)
  /\ \A a \in ArtifactIds :
       (a \in collection /\ TimedOut(a)) ~> (a \notin collection \/ Attempted(a))

\* C13: after a successful undeploy of the only running deployment, the
\* refresh that follows the delete leaves a live registration with zero
\* callables; the undeployed deployment's name is not registered.
C13_UndeployLastLeavesEmptyRegistration ==
  \A c \in CallIds :
    LET call == calls[c]
        name == _get_deployment_name(call.artifact)
    IN ( /\ Done(c, "undeploy") /\ ~call.skip /\ call.result.success
         /\ RunningNames(call.pre) = {name} )
       => /\ units = {}
          /\ registered.live
          /\ registered.functions = {}
          /\ name \notin Callables(registered)
          /\ service_info = [id |-> ServiceId, functions |-> {}]

C13_Witness ==
  \E c \in CallIds :
    LET call == calls[c] IN
    /\ Done(c, "undeploy") /\ call.entry = "worker" /\ call.result.success
    /\ call.pre = {[name |-> <<"b", "_", "c">>, artifact |-> BC, version |-> None]}
    /\ call.artifact = BC
    /\ CountOp(call, "register") = 1
    /\ registered = [live |-> TRUE, functions |-> {}]

\* The call's service refresh ran and the gateway accepted the registration.
Refreshed(call) ==
  /\ call.pc = "done"
  /\ CountOp(call, "register") = 1
  /\ "register_error" \notin FaultKinds(call)

C15_NotRunningRegistersEmpty ==
  \A c \in CallIds :
    LET call == calls[c] IN
    ( /\ call.pc = "done" /\ CountOp(call, "register") = 1
      /\ call.faults = {}
      /\ call.snapshot.status # "RUNNING" )
    => /\ registered = [live |-> TRUE, functions |-> {}]
       /\ service_info = [id |-> ServiceId, functions |-> {}]
       /\ call.result.success /\ ~call.result.raised
       /\ CountOp(call, "refresh_failed") = 0

C15_Witness ==
  \E c \in CallIds :
    LET call == calls[c] IN
    /\ Done(c, "deploy") /\ call.faults = {} /\ call.result.success
    /\ call.snapshot.status = "DEPLOY_FAILED"
    /\ call.snapshot.deployments # {}
    /\ \E u \in call.pre : u.artifact # call.artifact
    /\ registered = [live |-> TRUE, functions |-> {}]

C17_BatchSkipsRunning ==
  \A c \in CallIds :
    LET call == calls[c] IN
    (Done(c, "batch") /\ Listed(call))
    => \A a \in ListSet(call) :
         _get_deployment_name(a) \in RunningNames(call.pre)
           => Count(call, "load", a) = 0 /\ Count(call, "submit", a) = 0

\* C18: a failure of the registry listing does not leave the batch pass as
\* an exception: the pass ends without any deploy or undeploy.
C18_ListFailureDoesNotPropagate ==
  \A c \in CallIds :
    LET call == calls[c] IN
    (Done(c, "batch") /\ ~Listed(call))
    => /\ ~call.result.raised
       /\ call.trace = <<>>
       /\ units = call.pre

\* The last '/'-separated segment of an id.
TrailingSegment(id) == LET parts == Split(id, "/") IN parts[Len(parts)]

\* C19: the deployment name of an id is its trailing '/'-separated segment
\* with '-' replaced by '_' (the whole id when it has no '/'), for ids of
\* one, two, three or more segments.
C19_NameIsTrailingSegment ==
  nameA # NotComputed => nameA = Replace(TrailingSegment(idA), "-", "_")

\* C20: whatever name the manifest's deployment_config gives, the deployment
\* a deploy submits carries the name computed from the artifact id: after an
\* accepted submit the runtime holds the artifact's deployment under that
\* name, and no deployment ever runs under a manifest's own name.
C20_SubmittedNameIsComputed ==
  /\ \A u \in units : u.name = _get_deployment_name(u.artifact) /\ u.name # CustomName
  /\ \A c \in CallIds :
       LET call == calls[c] IN
       ( /\ Done(c, "deploy") /\ CountOp(call, "submit") = 1
         /\ "rejected" \notin FaultKinds(call) )
       => [name |-> _get_deployment_name(call.artifact),
           artifact |-> call.artifact, version |-> call.version] \in units

C20_Witness ==
  \E c \in CallIds :
    LET call == calls[c] IN
    /\ Done(c, "deploy") /\ call.result.success
    /\ call.config.name = CustomName
    /\ call.artifact = WsA
    /\ RunningNames(units) = {<<"a">>}

\* The steps a call took, in order.
Ops(call) == [k \in 1..Len(call.trace) |-> call.trace[k].op]

\* C21: a deploy whose code loading failed ends at once with the loader's
\* own failure: the manifest is not read, nothing is submitted, the
\* registration is not refreshed, and the runtime is as before the call.
C21_LoaderFailureFailsFast ==
  \A c \in CallIds :
    LET call == calls[c] IN
    (Done(c, "deploy") /\ FaultKinds(call) \cap (LoadOutcomes \ {"ok"}) # {})
    => /\ Ops(call) = <<"load">>
       /\ ~call.result.success
       /\ \E lo \in LoadOutcomes \ {"ok"} :
            /\ call.faults = {Fault(call.artifact, lo)}
            /\ call.result.error = LoaderException(lo).msg
       /\ units = call.pre

C21_Witness ==
  \E c \in CallIds :
    LET call == calls[c] IN
    /\ Done(c, "deploy") /\ call.entry = "worker" /\ call.pre # {}
    /\ call.faults = {Fault(call.artifact, "http_error")}
    /\ call.result.error = "http status error"
    /\ registered.live /\ units = call.pre

\* C22: a deploy of an artifact whose manifest is absent or has no
\* deployment_config ends with the missing-configuration failure right
\* after the read: nothing is submitted, the registration is not refreshed,
\* and the runtime is as before the call.
C22_MissingConfigFails ==
  \A c \in CallIds :
    LET call == calls[c] IN
    (Done(c, "deploy") /\ "no_config" \in FaultKinds(call))
    => /\ Ops(call) = <<"load", "read">>
       /\ ~call.result.success
       /\ call.result.error = "Invalid manifest or missing deployment_config"
       /\ units = call.pre

C22_Witness ==
  \E c \in CallIds :
    LET call == calls[c] IN
    /\ Done(c, "deploy") /\ call.entry = "worker"
    /\ call.faults = {Fault(call.artifact, "no_config")}
    /\ ~call.result.success /\ ~call.result.raised
    /\ Cardinality(units) = 1 /\ units = call.pre
    /\ Callables(registered) = RunningNames(units)

\* The error texts of the loader's and the configuration's failures.
LoaderAndConfigErrors ==
  {LoaderException(lo).msg : lo \in LoadOutcomes \ {"ok"}}
    \cup {NoConfigExn.msg, ReadErrorExn.msg}

\* C23: a deploy submits to the runtime at most once; when the runtime
\* refuses the submit the call ends there with the runtime-rejected failure,
\* which is none of the loader's or the configuration's failures: no second
\* submit, no refresh, the runtime as before the call.
C23_RejectedSubmitFailsOnce ==
  \A c \in CallIds :
    LET call == calls[c] IN
    Done(c, "deploy")
    => /\ CountOp(call, "submit") <= 1
       /\ "rejected" \in FaultKinds(call)
            => /\ Ops(call) = <<"load", "read", "submit">>
               /\ ~call.result.success
               /\ call.result.error = "Ray Serve deployment failed"
               /\ call.result.error \notin LoaderAndConfigErrors

C23_Witness ==
  \E c \in CallIds :
    LET call == calls[c] IN
    /\ Done(c, "deploy") /\ call.entry = "worker"
    /\ call.faults = {Fault(call.artifact, "rejected")}
    /\ ~call.result.success /\ ~call.result.raised
    /\ \E u \in call.pre : u.artifact = call.artifact
    /\ units = call.pre

\* The position of the first step op in a call's history (0: not taken).
Position(call, op) ==
  IF CountOp(call, op) = 0 THEN 0
  ELSE CHOOSE k \in 1..Len(call.trace) :
         call.trace[k].op = op /\ \A j \in 1..(k - 1) : call.trace[j].op # op
\* The runtime call of a deploy or undeploy and whether it succeeded.
Mutation(call) == IF call.kind = "undeploy" THEN "delete" ELSE "submit"
Mutated(call) ==
  /\ CountOp(call, Mutation(call)) = 1
  /\ FaultKinds(call) \cap {"rejected", "delete_error"} = {}

\* C25: a deploy or undeploy called with skip_update makes no refresh
\* attempt; called without, it makes exactly one, after its submit or delete
\* succeeded, and none when that runtime call did not succeed.
C25_RefreshOnceUnlessSkipped ==
  \A c \in CallIds :
    LET call == calls[c] IN
    (Done(c, "deploy") \/ Done(c, "undeploy"))
    => /\ call.skip => CountOp(call, "status") = 0 /\ CountOp(call, "register") = 0
       /\ (~call.skip /\ Mutated(call))
            => /\ CountOp(call, "status") = 1
               /\ CountOp(call, "register") <= 1
               /\ Position(call, Mutation(call)) < Position(call, "status")
       /\ ~Mutated(call) => CountOp(call, "status") = 0 /\ CountOp(call, "register") = 0

C25_Witness ==
  \E c \in CallIds :
    LET call == calls[c] IN
    /\ Done(c, "deploy") /\ call.skip /\ Mutated(call)
    /\ units # call.pre
    /\ CountOp(call, "status") = 0

\* C26: the registration changes only in the step in which a service
\* refresh registers its bundle, and then becomes the bundle built from that
\* refresh's status response; a step that changes the runtime's deployments
\* (a submit or a delete) leaves the registration as it is, so a deployment
\* submitted after the last refresh is callable only once the next refresh
\* has registered.
C26_CallableOnlyThroughRefresh ==
  [][ /\ registered' # registered
        => \E c \in CallIds :
             /\ calls[c].pc = "register" /\ calls'[c].pc # "register"
             /\ registered'.live
             /\ Callables(registered') =
                  IF calls[c].snapshot.status = "RUNNING"
                  THEN calls[c].snapshot.deployments ELSE {}
      /\ units' # units => registered' = registered ]_vars

C26_Witness ==
  \E c \in CallIds :
    LET call == calls[c]
        name == _get_deployment_name(call.artifact)
    IN /\ call.kind = "deploy" /\ call.pc = "register"
       /\ registered.live
       /\ name \in RunningNames(units)
       /\ name \notin Callables(registered)
       /\ name \notin RunningNames(call.pre)

\* C27: when the process has terminated through its shutdown path, no
\* deployment made by this worker is still running on the runtime.
C27_ShutdownUndeploysAll ==
  process = "exited" => units = {}

\* C24: the loader's failures are told apart by kind: a missing ChironModel
\* after a successful evaluation is not reported as the kind of a failure
\* raised by the evaluation, and a non-success HTTP outcome is not reported
\* as the kind of a timeout.
C24_LoaderFailureKindsDistinct ==
  LET causes == {load1.cause, load2.cause} IN
  /\ causes = {"no_symbol", "exec_error"} => load1.exn.type # load2.exn.type
  /\ causes = {"http_error", "timeout"} => load1.exn.type # load2.exn.type

\* What a first load of the content gives, with nothing left behind.
FreshLoad(download, content) ==
  LoadResult(load_deployment_code({}, download, content))

C29_BatchResultsMatchSubmissions ==
  \A c \in CallIds :
    LET call == calls[c] IN
    (Done(c, "batch") /\ Listed(call))
    => /\ {r.id : r \in call.results} = ListSet(call)
       /\ \A r \in call.results :
            r.success <=> /\ Count(call, "submit", r.id) = 1
                          /\ Fault(r.id, "rejected") \notin call.faults

\* C30: when Worker.undeploy returns success = false, the runtime runs the
\* same deployments as before the call.
C30_FailedUndeployRemovesNothing ==
  \A c \in CallIds :
    LET call == calls[c] IN
    (Done(c, "undeploy") /\ call.entry = "worker" /\ ~call.result.success)
    => units = call.pre

\* C31: the stored service info is the result of the most recent successful
\* refresh: None until a refresh has registered, afterwards the info of the
\* bundle registered last; it changes only in the step in which a refresh
\* registers, so a failed refresh and a deploy or undeploy with the refresh
\* skipped leave it as it was.
C31_ServiceInfoIsLastRefresh ==
  /\ [](/\ service_info = NoServiceInfo <=> ~registered.live
        /\ registered.live =>
             service_info = [id |-> ServiceId, functions |-> Callables(registered)])
  /\ [][ service_info' # service_info
           => \E c \in CallIds :
                /\ calls[c].pc = "register" /\ calls'[c].pc # "register"
                /\ "register_error" \notin FaultKinds(calls'[c])
                /\ registered' = [live |-> TRUE,
                                  functions |-> ServiceFunctions(calls[c].snapshot)] ]_vars

C31_Witness ==
  \E c \in CallIds :
    LET call == calls[c] IN
    /\ Done(c, "deploy") /\ ~call.skip
    /\ FaultKinds(call) = {"register_error"}
    /\ units # call.pre
    /\ service_info # NoServiceInfo
    /\ service_info.functions = RunningNames(call.pre)
    /\ service_info.functions # RunningNames(units)

\* C32: a create_dataset that fails, because the id exists or because the
\* manifest data fails validation, leaves the dataset directories and their
\* manifests as they were before the call; after a failed create of a new id
\* a create of that id with valid manifest data succeeds.
C32_FailedCreateChangesNothing ==
  [][ (last_call'.op = "create_dataset" /\ ~last_call'.ok)
        => /\ datasets' = datasets
           /\ ~datasets[_get_dataset_path(last_call'.dataset_id)].exists
                => create_dataset(datasets', last_call'.dataset_id,
                                  {"name", "description"}).ok ]_vars

\* C33: an upload_file or delete_file on a dataset whose manifest is in place
\* leaves manifest.yaml in place as the manifest, and get_dataset succeeds
\* afterwards as it did before.
C33_ManifestSurvivesFileCalls ==
  [][ \A id \in DatasetIds :
        (/\ last_call'.op \in {"upload_file", "delete_file"}
         /\ get_dataset(datasets, id).ok)
          => /\ IsFile(datasets'[_get_dataset_path(id)], ManifestPath)
             /\ get_dataset(datasets', id).ok ]_vars

====
